---- MODULE Spec2Model ----
(***************************************************************************)
(* Model of shaded (src/shaded.rs): a TCP daemon that drives a motorised   *)
(* window shade through three momentary GPIO outputs and estimates its     *)
(* position from elapsed time.                                             *)
(*                                                                         *)
(* Time is counted in whole milliseconds.  The source computes with        *)
(* Duration::as_micros(); for an elapsed time of d whole milliseconds      *)
(*   (65535 * d*1000) / (T*1000)  =  (65535 * d) / T   (integer division)  *)
(* so the millisecond arithmetic below gives the source's result exactly.  *)
(* An Instant kept in MovementState is represented by the time elapsed     *)
(* since it was taken (variable elapsed), which is all the source reads.   *)
(***************************************************************************)
EXTENDS Integers, Sequences, FiniteSets, TLC

\* ------------------------------------------------------------- constants
U16Max == 65535
TIME_TO_TOP == 16788
TIME_TO_BOTTOM == 16718
PRESS_TIME == 100

\* ---------------------------------------------------------------- bounds
\* lines read from all connections together before the model stops reading
MaxLines == 3
\* operations and clock ticks of the estimator-only specification
MaxSteps == 5

Conns == {"c1", "c2"}
NoConn == "none"
Outputs == {"handle_up", "handle_down", "handle_stop"}

\* lines a client may send; the last one is not a command
Lines == {"up\n", "down\n", "stop\n", "\n"}

HalfTop == TIME_TO_TOP \div 2
HalfBottom == TIME_TO_BOTTOM \div 2
\* amounts by which the clock advances between two steps
TickSet == {HalfTop, TIME_TO_TOP}
EstTickSet == {1, PRESS_TIME, HalfBottom, HalfTop, TIME_TO_BOTTOM, TIME_TO_TOP}
\* true positions the shade may start at
StartSamples == {0, 32768, 65535}
\* starting bounds of the estimator-only specification
PosSamples == {0, 1, 32767, 32768, 65534, 65535}

VARIABLES
    state,      \* ShadeHandle.state: [movement, max_pos, min_pos]
    elapsed,    \* t.elapsed() of the Instant held by state.movement
    hist,       \* history: last estimator command, reconciles and time since
    steps,      \* history: steps taken by the estimator-only specification
    out,        \* value of the three GPIO lines
    offFailed,  \* history: outputs whose last deactivation write failed
    lock,       \* connection holding the Mutex guard, or NoConn
    poisoned,   \* the Mutex is poisoned (a thread panicked holding the guard)
    pc,         \* position of each connection's thread in handle_client
    line,       \* each connection's `line` buffer, as the lines appended to it
    call,       \* history: the branch the latest line of a connection took
    io,         \* history: set_value and stream.write calls made for that line
    written,    \* history: snapshots written to each connection
    phys        \* the physical shade: motion and true position

vars == <<state, elapsed, hist, steps, out, offFailed, lock, poisoned, pc, line,
          call, io, written, phys>>

Min2(a, b) == IF a <= b THEN a ELSE b
Max2(a, b) == IF a >= b THEN a ELSE b

\* ------------------------------------------------------------- estimator
\* the same with wrapping arithmetic, and the clamp of moved left out
WrappingAdd(a, b) == (a + b) % (U16Max + 1)
WrappingSub(a, b) == (a - b + U16Max + 1) % (U16Max + 1)
MovedUnclamped(dur, total) == ((U16Max * dur) \div total) % (U16Max + 1)

\* u16::saturating_add / saturating_sub
SaturatingAdd(a, b) == Min2(a + b, U16Max)
SaturatingSub(a, b) == Max2(a - b, 0)

\* moved = min(65535 * dur / total, 65535) as u16
Moved(dur, total) == Min2((U16Max * dur) \div total, U16Max)

Default == [movement |-> "Stopped", max_pos |-> U16Max, min_pos |-> 0]

\* record with the max_pos update of the MovingDown arm left out
RecordDownMinOnly(s, dur) ==
    CASE s.movement = "MovingUp" ->
            LET moved == Moved(dur, TIME_TO_TOP)
                mx == SaturatingAdd(s.max_pos, moved)
                mn == SaturatingAdd(s.min_pos, moved)
            IN  [movement |-> IF mn = 65535 THEN "Stopped" ELSE "MovingUp",
                 max_pos |-> mx, min_pos |-> mn]
      [] s.movement = "MovingDown" ->
            LET moved == Moved(dur, TIME_TO_BOTTOM)
                mn == SaturatingSub(s.min_pos, moved)
            IN  [movement |-> IF s.max_pos = 0 THEN "Stopped" ELSE "MovingDown",
                 max_pos |-> s.max_pos, min_pos |-> mn]
      [] OTHER -> s

\* record whose MovingUp arm takes its new Instant as MovingDown
RecordUpRestampsDown(s, dur) ==
    CASE s.movement = "MovingUp" ->
            LET moved == Moved(dur, TIME_TO_TOP)
                mx == SaturatingAdd(s.max_pos, moved)
                mn == SaturatingAdd(s.min_pos, moved)
            IN  [movement |-> IF mn = 65535 THEN "Stopped" ELSE "MovingDown",
                 max_pos |-> mx, min_pos |-> mn]
      [] s.movement = "MovingDown" ->
            LET moved == Moved(dur, TIME_TO_BOTTOM)
                mx == SaturatingSub(s.max_pos, moved)
                mn == SaturatingSub(s.min_pos, moved)
            IN  [movement |-> IF mx = 0 THEN "Stopped" ELSE "MovingDown",
                 max_pos |-> mx, min_pos |-> mn]
      [] OTHER -> s

\* record whose MovingUp arm stops when max_pos, not min_pos, reaches the top
RecordUpStopsAtMax(s, dur) ==
    CASE s.movement = "MovingUp" ->
            LET moved == Moved(dur, TIME_TO_TOP)
                mx == SaturatingAdd(s.max_pos, moved)
                mn == SaturatingAdd(s.min_pos, moved)
            IN  [movement |-> IF mx = 65535 THEN "Stopped" ELSE "MovingUp",
                 max_pos |-> mx, min_pos |-> mn]
      [] s.movement = "MovingDown" ->
            LET moved == Moved(dur, TIME_TO_BOTTOM)
                mx == SaturatingSub(s.max_pos, moved)
                mn == SaturatingSub(s.min_pos, moved)
            IN  [movement |-> IF mx = 0 THEN "Stopped" ELSE "MovingDown",
                 max_pos |-> mx, min_pos |-> mn]
      [] OTHER -> s

\* ShadeState::record with t.elapsed() = dur
Record(s, dur) ==
    CASE s.movement = "MovingUp" ->
            LET moved == Moved(dur, TIME_TO_TOP)
                mx == SaturatingAdd(s.max_pos, moved)
                mn == SaturatingAdd(s.min_pos, moved)
            IN  [movement |-> IF mn = 65535 THEN "Stopped" ELSE "MovingUp",
                 max_pos |-> mx, min_pos |-> mn]
      [] s.movement = "MovingDown" ->
            LET moved == Moved(dur, TIME_TO_BOTTOM)
                mx == SaturatingSub(s.max_pos, moved)
                mn == SaturatingSub(s.min_pos, moved)
            IN  [movement |-> IF mx = 0 THEN "Stopped" ELSE "MovingDown",
                 max_pos |-> mx, min_pos |-> mn]
      [] OTHER -> s

\* move_up written as a copy of move_down
MoveUpAsDown(s, dur) == [Record(s, dur) EXCEPT !.movement = "MovingDown"]

MoveUp(s, dur) == [Record(s, dur) EXCEPT !.movement = "MovingUp"]
MoveDown(s, dur) == [Record(s, dur) EXCEPT !.movement = "MovingDown"]
Stop(s, dur) == [Record(s, dur) EXCEPT !.movement = "Stopped"]

\* The clock: elapsed only matters up to TIME_TO_TOP, where Moved has reached
\* 65535 for both directions (TIME_TO_BOTTOM < TIME_TO_TOP).
Advance(e, d) == Min2(e + d, TIME_TO_TOP)

\* history of the estimator: the last command, the reconciles since it, the
\* time from it to the latest reconcile (cum) and to now (run)
HistCmd(name) == [cmd |-> name, nrec |-> 0, cum |-> 0, run |-> 0, one |-> 0]
HistRec(h) == [h EXCEPT !.nrec = Min2(h.nrec + 1, 2), !.cum = h.run,
                        !.one = IF h.nrec = 0 THEN h.run ELSE h.one]
HistTick(h, d) == [h EXCEPT !.run = Advance(h.run, d)]

\* ------------------------------------- estimator-only specification
Quiet ==
    /\ out = [o \in Outputs |-> 0]
    /\ offFailed = {}
    /\ lock = NoConn
    /\ poisoned = FALSE
    /\ pc = [c \in Conns |-> "read"]
    /\ line = [c \in Conns |-> <<>>]
    /\ call = [c \in Conns |-> "none"]
    /\ io = [c \in Conns |-> {}]
    /\ written = [c \in Conns |-> 0]
    /\ phys = [move |-> "stopped", w |-> 0, a |-> 0, b |-> 0]

EstInit ==
    /\ \E mn \in PosSamples, mx \in PosSamples, m \in {"MovingUp", "MovingDown", "Stopped"} :
          /\ mn <= mx
          /\ state = [movement |-> m, max_pos |-> mx, min_pos |-> mn]
          /\ hist = HistCmd(CASE m = "MovingUp" -> "move_up"
                              [] m = "MovingDown" -> "move_down"
                              [] OTHER -> "stop")
    /\ elapsed = 0
    /\ steps = 0
    /\ Quiet

EstFrame == UNCHANGED <<out, offFailed, lock, poisoned, pc, line, call, io, written, phys>>

EstMoveUp ==
    /\ steps < MaxSteps
    /\ state' = MoveUp(state, elapsed)
    /\ elapsed' = 0
    /\ hist' = HistCmd("move_up")
    /\ steps' = steps + 1
    /\ EstFrame

EstMoveDown ==
    /\ steps < MaxSteps
    /\ state' = MoveDown(state, elapsed)
    /\ elapsed' = 0
    /\ hist' = HistCmd("move_down")
    /\ steps' = steps + 1
    /\ EstFrame

EstStop ==
    /\ steps < MaxSteps
    /\ state' = Stop(state, elapsed)
    /\ elapsed' = 0
    /\ hist' = HistCmd("stop")
    /\ steps' = steps + 1
    /\ EstFrame

EstRecord ==
    /\ steps < MaxSteps
    /\ state' = Record(state, elapsed)
    /\ elapsed' = 0
    /\ hist' = HistRec(hist)
    /\ steps' = steps + 1
    /\ EstFrame

EstTick ==
    /\ steps < MaxSteps
    /\ state.movement # "Stopped"
    /\ \E d \in EstTickSet :
          /\ elapsed' = Advance(elapsed, d)
          /\ hist' = HistTick(hist, d)
    /\ steps' = steps + 1
    /\ UNCHANGED state
    /\ EstFrame

EstNext == EstMoveUp \/ EstMoveDown \/ EstStop \/ EstRecord \/ EstTick

SpecEst == EstInit /\ [][EstNext]_vars

\* ------------------------------------------------------- physical shade
\* The true position is w + a/TIME_TO_TOP - b/TIME_TO_BOTTOM, kept exactly:
\* 0 <= a < TIME_TO_TOP, 0 <= b < TIME_TO_BOTTOM.
TrueFloor(p) == p.w - (IF p.a * TIME_TO_BOTTOM >= p.b * TIME_TO_TOP THEN 0 ELSE 1)
TrueCeil(p) == p.w + (IF p.a * TIME_TO_BOTTOM > p.b * TIME_TO_TOP THEN 1 ELSE 0)

\* d time units of travel at 65535/TIME_TO_TOP up or 65535/TIME_TO_BOTTOM
\* down, halting at the end-stop
PhysAdvance(p, d) ==
    CASE p.move = "up" ->
            LET a2 == p.a + U16Max * d
                q == [p EXCEPT !.w = p.w + (a2 \div TIME_TO_TOP), !.a = a2 % TIME_TO_TOP]
            IN  IF TrueFloor(q) >= U16Max
                THEN [move |-> "stopped", w |-> U16Max, a |-> 0, b |-> 0]
                ELSE q
      [] p.move = "down" ->
            LET b2 == p.b + U16Max * d
                q == [p EXCEPT !.w = p.w - (b2 \div TIME_TO_BOTTOM), !.b = b2 % TIME_TO_BOTTOM]
            IN  IF TrueCeil(q) <= 0
                THEN [move |-> "stopped", w |-> 0, a |-> 0, b |-> 0]
                ELSE q
      [] OTHER -> p

\* a pulse on an output starts or halts the shade
Press(p, o) ==
    CASE o = "handle_up" ->
            IF TrueFloor(p) >= U16Max THEN p ELSE [p EXCEPT !.move = "up"]
      [] o = "handle_down" ->
            IF TrueCeil(p) <= 0 THEN p ELSE [p EXCEPT !.move = "down"]
      [] OTHER -> [p EXCEPT !.move = "stopped"]

\* ------------------------------------------------------------ dispatcher
\* a lock that excludes nobody
LockAlwaysFree == TRUE

\* Mutex::lock returns once no other thread holds the guard
LockFree == lock = NoConn

\* the comparisons of handle_client on the whole buffer
IsUp(buf) == buf = <<"up\n">>
IsDown(buf) == buf = <<"down\n">>
IsStop(buf) == buf = <<"stop\n">>

\* stop without its early return
StopNeverEarly(s) == FALSE

\* ShadeHandle::stop returns before any write when no motion is recorded
StopReturnsEarly(s) == s.movement = "Stopped"

\* a failed set_value(1) whose error did not end the call before move_*()
FailedStartAdvanced(s, s2) == s2

\* set_value(1)? returns the error before move_up() / move_down() is reached
FailedStartState(s, s2) == s

\* a branch that goes back to read_line without the write
AfterCallSkip == "read"

\* every branch of the if falls through to the stream.write statement
AfterCall == "snap"

\* a guard that outlives the statement
GuardKept(c) == c

\* the MutexGuard temporary drops at the end of the statement
GuardDropped(c) == NoConn

\* ShadeState::json, as the values it prints
Json(s) ==
    [state |-> CASE s.movement = "MovingUp" -> "up"
                 [] s.movement = "MovingDown" -> "down"
                 [] OTHER -> "stopped",
     max_pos |-> s.max_pos,
     min_pos |-> s.min_pos,
     probably |-> (s.max_pos \div 2) + (s.min_pos \div 2)]

OutputOf(name) ==
    CASE name = "up" -> "handle_up"
      [] name = "down" -> "handle_down"
      [] OTHER -> "handle_stop"

Init ==
    /\ state = Default
    /\ elapsed = 0
    /\ hist = HistCmd("none")
    /\ steps = 0
    /\ out = [o \in Outputs |-> 0]
    /\ offFailed = {}
    /\ lock = NoConn
    /\ poisoned = FALSE
    /\ pc = [c \in Conns |-> "read"]
    /\ line = [c \in Conns |-> <<>>]
    /\ call = [c \in Conns |-> "none"]
    /\ io = [c \in Conns |-> {}]
    /\ written = [c \in Conns |-> 0]
    /\ \E w \in StartSamples : phys = [move |-> "stopped", w |-> w, a |-> 0, b |-> 0]

LinesRead == Len(line["c1"]) + Len(line["c2"])

\* stream.read_line(&mut line): appends the line read to the buffer
ReadLine(c) ==
    /\ pc[c] = "read"
    /\ LinesRead < MaxLines
    /\ \E l \in Lines : line' = [line EXCEPT ![c] = Append(@, l)]
    /\ pc' = [pc EXCEPT ![c] = "cmd"]
    /\ call' = [call EXCEPT ![c] = "none"]
    /\ io' = [io EXCEPT ![c] = {}]
    /\ UNCHANGED <<state, elapsed, hist, steps, out, offFailed, lock, poisoned, written,
                   phys>>

\* read_bytes == 0, or a read error: the loop ends
Eof(c) ==
    /\ pc[c] = "read"
    /\ pc' = [pc EXCEPT ![c] = "closed"]
    /\ UNCHANGED <<state, elapsed, hist, steps, out, offFailed, lock, poisoned, line,
                   call, io, written, phys>>

\* lock().unwrap() on a poisoned Mutex panics
LockPoisoned(c) ==
    /\ pc[c] \in {"cmd", "snap"}
    /\ LockFree
    /\ poisoned
    /\ pc' = [pc EXCEPT ![c] = "panicked"]
    /\ UNCHANGED <<state, elapsed, hist, steps, out, offFailed, lock, poisoned, line,
                   call, io, written, phys>>

\* ShadeHandle::up / down until the sleep; a failed set_value(1) returns the
\* error, and unwrap() panics while the guard is held
Start(c, name, s2) ==
    /\ LockFree
    /\ ~poisoned
    /\ call' = [call EXCEPT ![c] = name]
    /\ \E ok \in BOOLEAN :
          IF ok
          THEN /\ out' = [out EXCEPT ![OutputOf(name)] = 1]
               /\ offFailed' = offFailed \ {OutputOf(name)}
               /\ phys' = Press(phys, OutputOf(name))
               /\ state' = s2
               /\ elapsed' = 0
               /\ lock' = c
               /\ pc' = [pc EXCEPT ![c] = "pulse"]
               /\ io' = [io EXCEPT ![c] = @ \cup {"on"}]
               /\ UNCHANGED poisoned
          ELSE /\ state' = FailedStartState(state, s2)
               /\ poisoned' = TRUE
               /\ pc' = [pc EXCEPT ![c] = "panicked"]
               /\ io' = [io EXCEPT ![c] = @ \cup {"on_failed"}]
               /\ UNCHANGED <<elapsed, out, offFailed, lock, phys>>
    /\ UNCHANGED <<hist, steps, line, written>>

Up(c) ==
    /\ pc[c] = "cmd"
    /\ IsUp(line[c])
    /\ Start(c, "up", MoveUp(state, elapsed))

Down(c) ==
    /\ pc[c] = "cmd"
    /\ ~IsUp(line[c])
    /\ IsDown(line[c])
    /\ Start(c, "down", MoveDown(state, elapsed))

\* ShadeHandle::stop until the sleep
StopCmd(c) ==
    /\ pc[c] = "cmd"
    /\ ~IsUp(line[c])
    /\ ~IsDown(line[c])
    /\ IsStop(line[c])
    /\ LockFree
    /\ ~poisoned
    /\ call' = [call EXCEPT ![c] = "stop"]
    /\ LET r == Record(state, elapsed)
       IN  IF StopReturnsEarly(r)
           THEN /\ state' = r
                /\ elapsed' = 0
                /\ pc' = [pc EXCEPT ![c] = AfterCall]
                /\ UNCHANGED <<out, offFailed, lock, poisoned, io, phys>>
           ELSE \E ok \in BOOLEAN :
                  IF ok
                  THEN /\ out' = [out EXCEPT !["handle_stop"] = 1]
                       /\ offFailed' = offFailed \ {"handle_stop"}
                       /\ phys' = Press(phys, "handle_stop")
                       /\ state' = Stop(r, 0)
                       /\ elapsed' = 0
                       /\ lock' = c
                       /\ pc' = [pc EXCEPT ![c] = "pulse"]
                       /\ io' = [io EXCEPT ![c] = @ \cup {"on"}]
                       /\ UNCHANGED poisoned
                  ELSE /\ state' = r
                       /\ elapsed' = 0
                       /\ poisoned' = TRUE
                       /\ pc' = [pc EXCEPT ![c] = "panicked"]
                       /\ io' = [io EXCEPT ![c] = @ \cup {"on_failed"}]
                       /\ UNCHANGED <<out, offFailed, lock, phys>>
    /\ UNCHANGED <<hist, steps, line, written>>

\* thread::sleep(PRESS_TIME); let _ = set_value(0); Ok(()): the guard drops
EndPulse(c) ==
    /\ pc[c] = "pulse"
    /\ elapsed' = IF state.movement = "Stopped" THEN 0 ELSE Advance(elapsed, PRESS_TIME)
    /\ phys' = PhysAdvance(phys, PRESS_TIME)
    /\ \E ok \in BOOLEAN :
          /\ out' = IF ok THEN [out EXCEPT ![OutputOf(call[c])] = 0] ELSE out
          /\ offFailed' = IF ok THEN offFailed \ {OutputOf(call[c])}
                                ELSE offFailed \cup {OutputOf(call[c])}
    /\ io' = [io EXCEPT ![c] = @ \cup {"off"}]
    /\ lock' = GuardDropped(c)
    /\ pc' = [pc EXCEPT ![c] = AfterCall]
    /\ UNCHANGED <<state, hist, steps, poisoned, line, call, written>>

\* any other buffer: shade_handle.lock().unwrap().state.record()
Query(c) ==
    /\ pc[c] = "cmd"
    /\ ~IsUp(line[c])
    /\ ~IsDown(line[c])
    /\ ~IsStop(line[c])
    /\ LockFree
    /\ ~poisoned
    /\ state' = Record(state, elapsed)
    /\ elapsed' = 0
    /\ call' = [call EXCEPT ![c] = "record"]
    /\ pc' = [pc EXCEPT ![c] = AfterCall]
    /\ UNCHANGED <<hist, steps, out, offFailed, lock, poisoned, line, io, written, phys>>

\* stream.write(shade_handle.lock().unwrap().state.json().as_bytes()).unwrap():
\* the guard lives to the end of the statement, so a failed write panics
\* with the guard held
Snapshot(c) ==
    /\ pc[c] = "snap"
    /\ LockFree
    /\ ~poisoned
    /\ \E ok \in BOOLEAN :
          IF ok
          THEN /\ pc' = [pc EXCEPT ![c] = "read"]
               /\ io' = [io EXCEPT ![c] = @ \cup {"reply"}]
               /\ written' = [written EXCEPT ![c] = @ + 1]
               /\ UNCHANGED poisoned
          ELSE /\ pc' = [pc EXCEPT ![c] = "panicked"]
               /\ io' = [io EXCEPT ![c] = @ \cup {"reply_failed"}]
               /\ poisoned' = TRUE
               /\ UNCHANGED written
    /\ UNCHANGED <<state, elapsed, hist, steps, out, offFailed, lock, line, call, phys>>

\* time passes while the estimator or the shade is in motion
Tick ==
    /\ state.movement # "Stopped" \/ phys.move # "stopped"
    /\ \E d \in TickSet :
          /\ elapsed' = IF state.movement = "Stopped" THEN 0 ELSE Advance(elapsed, d)
          /\ phys' = PhysAdvance(phys, d)
    /\ UNCHANGED <<state, hist, steps, out, offFailed, lock, poisoned, pc, line, call,
                   io, written>>

Next ==
    \/ \E c \in Conns :
          \/ ReadLine(c)
          \/ Eof(c)
          \/ LockPoisoned(c)
          \/ Up(c)
          \/ Down(c)
          \/ StopCmd(c)
          \/ EndPulse(c)
          \/ Query(c)
          \/ Snapshot(c)
    \/ Tick

Spec == Init /\ [][Next]_vars


\* ------------------------------------------- the daemon, threads scheduled
\* every lock() of connection c's thread: granted fairly by the Mutex
Acquire(c) ==
    Up(c) \/ Down(c) \/ StopCmd(c) \/ Query(c) \/ Snapshot(c) \/ LockPoisoned(c)

\* each connection has a thread of its own: the lock is granted to a thread
\* that keeps asking for it, and the sleep and the deactivation write return
Fairness == \A c \in Conns : SF_vars(Acquire(c)) /\ WF_vars(EndPulse(c))

SpecLive == Init /\ [][Next]_vars /\ Fairness

\* ---------------------------------------------------------------- claims
Last(buf) == buf[Len(buf)]
InPulse == {c \in Conns : pc[c] = "pulse"}
Active == {o \in Outputs : out[o] = 1}
Width(s) == s.max_pos - s.min_pos

\* C1: in every reachable state of the daemon, whatever commands, queries,
\* elapsed times and hardware faults led to it, min_pos <= max_pos.
C1_MinLeMax == state.min_pos <= state.max_pos

\* C1 witness: the bounds have moved and a hardware fault has aborted a call.
C1_Witness ==
    /\ poisoned
    /\ state.min_pos > 0
    /\ state.max_pos < U16Max
    /\ \E c \in Conns : pc[c] = "panicked" /\ call[c] \in {"up", "down", "stop"}

\* C2: whenever the estimator has just been reconciled (it is Stopped, or no
\* time has passed since its Instant was taken), the true position of the
\* shade lies within [min_pos, max_pos].
C2_Conservative ==
    (state.movement = "Stopped" \/ elapsed = 0)
        => /\ state.min_pos <= TrueFloor(phys)
           /\ TrueCeil(phys) <= state.max_pos

\* C3: every line that is exactly up, down or stop, the first of a connection
\* or a later one, is dispatched to the Actuator operation of that name.
C3_EveryLineDispatched ==
    \A c \in Conns :
        call[c] # "none" =>
            /\ Last(line[c]) = "up\n" => call[c] = "up"
            /\ Last(line[c]) = "down\n" => call[c] = "down"
            /\ Last(line[c]) = "stop\n" => call[c] = "stop"

\* C4 as stated: at most one connection is inside an Actuator operation and
\* at most one of the three outputs is active.
C4_OneOutputActive ==
    /\ Cardinality(InPulse) <= 1
    /\ Cardinality(Active) <= 1

Exclusive ==
    /\ Cardinality(InPulse) <= 1
    /\ \A c \in Conns : pc[c] = "pulse" <=> lock = c
    /\ \A o \in Active :
          \/ \E c \in InPulse : OutputOf(call[c]) = o
          \/ o \in offFailed

\* C4 amended: at most one connection is inside an Actuator operation, and it
\* holds the lock from the activation to the deactivation write; an active
\* output is the one being pulsed or one whose deactivation write failed; and
\* while a pulse lasts no other connection runs a command, a reconcile or a
\* snapshot read, and nobody changes the estimator or the outputs.
C4_PulseExclusive ==
    [][/\ Exclusive'
       /\ \A c \in Conns :
             pc[c] = "pulse" =>
                /\ \A d \in Conns \ {c} : pc'[d] # pc[d] => pc[d] = "read"
                /\ pc'[c] = "pulse" => (state' = state /\ out' = out)]_vars

\* C4 witness: one connection is in its pulse while the other has a line to
\* process and waits.
C4_Witness ==
    \E c, d \in Conns :
        /\ c # d
        /\ pc[c] = "pulse"
        /\ out[OutputOf(call[c])] = 1
        /\ pc[d] \in {"cmd", "snap"}

MovementOf(name) ==
    CASE name = "up" -> "MovingUp"
      [] name = "down" -> "MovingDown"
      [] OTHER -> "Stopped"

BothDone(c, d) ==
    /\ c # d
    /\ line[c] = <<"up\n">> /\ call[c] = "up"
    /\ line[d] = <<"down\n">> /\ call[d] = "down"
    /\ pc[c] \in {"snap", "read", "closed"}
    /\ pc[d] \in {"snap", "read", "closed"}
    /\ LinesRead = 2

\* C5: when one connection's first line is up and the other's is down, the
\* estimator after both operations is the one a sequential run leaves: up
\* then down (MovingDown, max_pos = 65535, min_pos raised by at least the
\* pulse's travel) or down then up (MovingUp, min_pos = 0, max_pos lowered by
\* at least the pulse's travel); and while a connection is inside its
\* operation the movement is the one that operation recorded.
C5_Serial ==
    /\ \A c \in Conns : pc[c] = "pulse" => state.movement = MovementOf(call[c])
    /\ \A c, d \in Conns :
          BothDone(c, d) =>
             \/ /\ state.movement = "MovingDown"
                /\ state.max_pos = U16Max
                /\ state.min_pos >= Moved(PRESS_TIME, TIME_TO_TOP)
             \/ /\ state.movement = "MovingUp"
                /\ state.min_pos = 0
                /\ state.max_pos <= U16Max - Moved(PRESS_TIME, TIME_TO_BOTTOM)

\* C5 witness: both operations are complete, up having run first.
C5_Witness ==
    \E c, d \in Conns :
        /\ BothDone(c, d)
        /\ state.movement = "MovingDown"
        /\ state.min_pos = Moved(PRESS_TIME, TIME_TO_TOP)

\* C6: after move_up() and at least one reconcile, once the time from
\* move_up() to the latest reconcile is at least TIME_TO_TOP, min_pos is
\* 65535 and the movement is Stopped.
C6_Saturation ==
    (hist.cmd = "move_up" /\ hist.nrec >= 1 /\ hist.cum >= TIME_TO_TOP)
        => (state.min_pos = U16Max /\ state.movement = "Stopped")

\* C7: move_up() followed by exactly one reconcile after at least TIME_TO_TOP
\* leaves min_pos = max_pos = 65535 and Stopped; move_down() followed by one
\* reconcile after at least TIME_TO_BOTTOM leaves min_pos = max_pos = 0 and
\* Stopped; from any starting bounds.
C7_FullTravelCollapses ==
    /\ (hist.cmd = "move_up" /\ hist.nrec = 1 /\ hist.one >= TIME_TO_TOP)
          => state = [movement |-> "Stopped", max_pos |-> U16Max, min_pos |-> U16Max]
    /\ (hist.cmd = "move_down" /\ hist.nrec = 1 /\ hist.one >= TIME_TO_BOTTOM)
          => state = [movement |-> "Stopped", max_pos |-> 0, min_pos |-> 0]

\* C7 witness: a move_down() and one reconcile after the full travel time
\* have collapsed the bound at the bottom.
C7_Witness ==
    /\ hist.cmd = "move_down"
    /\ hist.nrec = 1
    /\ hist.one >= TIME_TO_BOTTOM
    /\ state.max_pos = 0
    /\ state.movement = "Stopped"

\* C8: no step taken while MovingUp decreases min_pos or max_pos, and no step
\* taken while MovingDown increases either.
C8_Monotonic ==
    [][/\ state.movement = "MovingUp"
          => (state'.min_pos >= state.min_pos /\ state'.max_pos >= state.max_pos)
       /\ state.movement = "MovingDown"
          => (state'.min_pos <= state.min_pos /\ state'.max_pos <= state.max_pos)]_vars

\* C8 witness: a reconcile while MovingDown has lowered both bounds and the
\* estimator is still MovingDown.
C8_Witness ==
    /\ hist.cmd = "move_down"
    /\ hist.nrec >= 1
    /\ hist.cum >= HalfBottom
    /\ state.movement = "MovingDown"
    /\ state.max_pos < U16Max - Moved(HalfBottom, TIME_TO_BOTTOM) + 1

\* C9: no estimator transition widens the bound.
C9_NeverWidens == [][Width(state') <= Width(state)]_vars

\* C9 witness: a reconcile while MovingUp has raised min_pos against a
\* max_pos already at the top, narrowing the bound.
C9_Witness ==
    /\ hist.cmd = "move_up"
    /\ hist.nrec = 1
    /\ hist.one = HalfTop
    /\ state.movement = "MovingUp"
    /\ state.max_pos = U16Max
    /\ Width(state) <= U16Max - Moved(HalfTop, TIME_TO_TOP)

\* C10: a stop line processed while the estimator is Stopped writes to no
\* output, leaves the estimator as it is and goes straight to the snapshot.
C10_StopNoop ==
    [][\A c \in Conns :
          (/\ pc[c] = "cmd"
           /\ IsStop(line[c])
           /\ state.movement = "Stopped"
           /\ pc'[c] # "cmd")
             => /\ out' = out
                /\ state' = state
                /\ lock' = lock
                /\ ~poisoned => pc'[c] = "snap"]_vars

\* C10 witness: both connections have sent stop to a Stopped estimator, one
\* after the other, and nothing has changed.
C10_Witness ==
    /\ \A c \in Conns : call[c] = "stop" /\ pc[c] \in {"snap", "read"}
    /\ state = Default
    /\ Active = {}

\* the step in which c's call of up, down or stop fails at set_value(1)
HwFaultStep(c, name) ==
    /\ pc[c] = "cmd"
    /\ call'[c] = name
    /\ "on_failed" \in io'[c]

C12_AlwaysDeactivates ==
    \A c \in Conns :
        (call[c] \in {"up", "down"} /\ pc[c] # "pulse") => "off" \in io[c]

Commands == {"up\n", "down\n", "stop\n"}

\* the step in which c's latest line is processed
Processed(c) == pc[c] = "cmd" /\ pc'[c] # "cmd"

\* C13: processing a line that is not a recognised command writes to no
\* output and never starts or reverses motion: the movement stays as it is or
\* goes from MovingUp or MovingDown to Stopped.
C13_QueryOnlyReconciles ==
    [][\A c \in Conns :
          (Processed(c) /\ Last(line[c]) \notin Commands)
             => /\ out' = out
                /\ io'[c] = {}
                /\ phys' = phys
                /\ lock' = lock
                /\ state' \in {state, Record(state, elapsed)}
                /\ state'.movement \in {state.movement, "Stopped"}]_vars

\* C13 witness: a line that is no command has been processed while the
\* estimator was MovingUp, and its reconcile has raised min_pos.
C13_Witness ==
    \E c \in Conns :
        /\ pc[c] = "snap"
        /\ call[c] = "record"
        /\ Last(line[c]) \notin Commands
        /\ state.movement = "MovingUp"
        /\ state.min_pos > 0
        /\ elapsed = 0

\* the step in which c's snapshot is written
SnapshotStep(c) == pc[c] = "snap" /\ written'[c] = written[c] + 1

\* C14: every snapshot written reports what a reconcile performed at that
\* moment would yield.
C14_SnapshotReconciled ==
    [][\A c \in Conns :
          SnapshotStep(c) => Json(state) = Json(Record(state, elapsed))]_vars

\* lines of c whose processing has not yet been answered
Pending(c) == IF pc[c] \in {"cmd", "pulse", "snap"} THEN 1 ELSE 0

\* C15: absent a fault, a connection has written exactly one snapshot for
\* each line it has finished processing: the line being processed is the
\* only one unanswered, and no line is read while one is unanswered.
C15_OneSnapshotPerLine ==
    ~poisoned => \A c \in Conns : written[c] = Len(line[c]) - Pending(c)

C15_Witness ==
    /\ ~poisoned
    /\ \E c \in Conns : Len(line[c]) = 2 /\ written[c] = 2 /\ io[c] = {"reply"}

\* a step of the estimator that is one reconcile and nothing else
ReconcileStep == steps' = steps + 1 /\ hist' = HistRec(hist) /\ elapsed' = 0

\* the distance covered in e ms when the full travel takes total ms
Covered(e, total) ==
    LET q == (65535 * e) \div total IN IF q > 65535 THEN 65535 ELSE q

\* C16: one reconcile while MovingUp with e elapsed adds
\* m = min(floor(65535 * e / TIME_TO_TOP), 65535) to both bounds, capped at
\* 65535, and leaves Stopped iff the new min_pos is 65535, else MovingUp;
\* while MovingDown it subtracts m computed against TIME_TO_BOTTOM, floored
\* at 0, and leaves Stopped iff the new max_pos is 0.  From bounds
\* [0, 65535] moving up, a reconcile at TIME_TO_TOP/2 gives [32767, 65535],
\* still MovingUp.
C16_SingleReconcile ==
    [][ReconcileStep =>
          /\ state.movement = "MovingUp" =>
                LET m == Covered(elapsed, TIME_TO_TOP)
                IN  /\ state'.min_pos = (IF state.min_pos + m > 65535 THEN 65535
                                                                      ELSE state.min_pos + m)
                    /\ state'.max_pos = (IF state.max_pos + m > 65535 THEN 65535
                                                                      ELSE state.max_pos + m)
                    /\ (state'.movement = "Stopped") = (state'.min_pos = 65535)
                    /\ state'.movement \in {"Stopped", "MovingUp"}
          /\ state.movement = "MovingDown" =>
                LET m == Covered(elapsed, TIME_TO_BOTTOM)
                IN  /\ state'.min_pos = (IF state.min_pos - m < 0 THEN 0
                                                                  ELSE state.min_pos - m)
                    /\ state'.max_pos = (IF state.max_pos - m < 0 THEN 0
                                                                  ELSE state.max_pos - m)
                    /\ (state'.movement = "Stopped") = (state'.max_pos = 0)
                    /\ state'.movement \in {"Stopped", "MovingDown"}
          /\ (/\ state = [movement |-> "MovingUp", max_pos |-> 65535, min_pos |-> 0]
              /\ elapsed = HalfTop)
                => state' = [movement |-> "MovingUp", max_pos |-> 65535, min_pos |-> 32767]
      ]_vars

C16_Witness ==
    /\ state = [movement |-> "MovingUp", max_pos |-> 65535, min_pos |-> 32767]
    /\ hist.cmd = "move_up"
    /\ hist.nrec = 1
    /\ hist.one = HalfTop
    /\ elapsed = 0

\* c's own command or response write has failed
OwnFault(c) == io[c] \cap {"on_failed", "reply_failed"} # {}

\* C17: a fault ends the processing of the connection it happened on and of
\* no other: a connection whose processing has been terminated has had a
\* fault of its own.
C17_FaultIsLocal == \A c \in Conns : pc[c] = "panicked" => OwnFault(c)

\* d's command l has been dispatched and its output activated
Dispatched(d, l) ==
    /\ Len(line[d]) >= 1
    /\ line[d][1] = l
    /\ Len(line[d]) > 1 \/ "on" \in io[d]

\* C18 as stated: the response to an up line reports "up" or "stopped",
\* and the response to a down line never reports "up".
C18_OwnCommandReflected ==
    [][\A c \in Conns :
          SnapshotStep(c) =>
              /\ call[c] = "up" => Json(state).state \in {"up", "stopped"}
              /\ call[c] = "down" => Json(state).state # "up"]_vars

\* C18: the response to an up line reports "down" only if another
\* connection's down command has been executed, and the response to a down
\* line reports "up" only if another connection's up command has been.
C18_OppositeOnlyFromOthers ==
    [][\A c \in Conns :
          SnapshotStep(c) =>
              /\ (call[c] = "up" /\ Json(state).state = "down")
                    => \E d \in Conns \ {c} : Dispatched(d, "down\n")
              /\ (call[c] = "down" /\ Json(state).state = "up")
                    => \E d \in Conns \ {c} : Dispatched(d, "up\n")]_vars

C18_Witness ==
    \E c \in Conns :
        /\ pc[c] = "snap" /\ call[c] = "up"
        /\ state.movement = "MovingDown"
        /\ LockFree /\ ~poisoned
        /\ \E d \in Conns \ {c} : Dispatched(d, "down\n") /\ pc[d] = "snap"

\* C19: in every snapshot written, min_pos <= probably <= max_pos.
C19_ProbablyWithinBounds ==
    [][\A c \in Conns :
          SnapshotStep(c) =>
              LET j == Json(state)
              IN  j.min_pos <= j.probably /\ j.probably <= j.max_pos]_vars

\* c has read its n-th line and not yet processed it
LineRead(c, n) == pc[c] = "cmd" /\ Len(line[c]) = n

====
